---- MODULE Spec2Model ----
(***************************************************************************)
(* Subscription & payment lifecycle of Kenang-BE: checkout, the Midtrans   *)
(* webhook, subscription creation / cancellation and the expiry sweep.     *)
(*                                                                         *)
(* Strings that take part in the webhook signature are sequences of        *)
(* tokens, so that concatenation is \o; the empty string is <<>>.          *)
(* Nullable integer columns use NoTime / NoId (0); nullable string columns *)
(* use NULL.                                                               *)
(***************************************************************************)
EXTENDS Integers, Sequences, FiniteSets, TLC

\* ------------------------------------------------------------------ bounds
MaxOrders == 2      \* checkouts per behaviour
MaxSubs == 2        \* Subscription rows per behaviour
MaxNow == 32        \* last day the clock reaches
TickDays == 31      \* days the clock advances per Tick
LegacyAmount == 99000   \* amount of a payment whose plan left the catalog

Users == {"u1", "u2"}
Buyers == {"u1"}    \* the users who check out
Workers == {"w1", "w2"}

NULL == "NULL"
NoTime == 0
NoId == 0
EmptyStr == <<>>

\* ----------------------------------------------------------------- catalog
\* faulty variant: alumni is priced like personal
SUBSCRIPTION_PLANS_shared_price ==
    << [plan_id |-> "free",            price_idr |-> 0,      billing_cycle |-> "lifetime"],
       [plan_id |-> "personal",        price_idr |-> 29000,  billing_cycle |-> "monthly"],
       [plan_id |-> "plus",            price_idr |-> 79000,  billing_cycle |-> "monthly"],
       [plan_id |-> "premium",         price_idr |-> 149000, billing_cycle |-> "monthly"],
       [plan_id |-> "cinta",           price_idr |-> 299000, billing_cycle |-> "one_time"],
       [plan_id |-> "keluarga_yearly", price_idr |-> 499000, billing_cycle |-> "yearly"],
       [plan_id |-> "alumni",          price_idr |-> 29000,  billing_cycle |-> "per_person_yearly"] >>

SUBSCRIPTION_PLANS ==
    << [plan_id |-> "free",            price_idr |-> 0,      billing_cycle |-> "lifetime"],
       [plan_id |-> "personal",        price_idr |-> 29000,  billing_cycle |-> "monthly"],
       [plan_id |-> "plus",            price_idr |-> 79000,  billing_cycle |-> "monthly"],
       [plan_id |-> "premium",         price_idr |-> 149000, billing_cycle |-> "monthly"],
       [plan_id |-> "cinta",           price_idr |-> 299000, billing_cycle |-> "one_time"],
       [plan_id |-> "keluarga_yearly", price_idr |-> 499000, billing_cycle |-> "yearly"],
       [plan_id |-> "alumni",          price_idr |-> 50000,  billing_cycle |-> "per_person_yearly"] >>

PlanId == {"free", "personal", "plus", "premium", "tim", "cinta", "keluarga_yearly", "alumni"}

NoPlan == [plan_id |-> NULL, price_idr |-> 0, billing_cycle |-> NULL]

get_all_plans == SUBSCRIPTION_PLANS

not_free(plan) == plan.plan_id # "free"

\* faulty variant: nothing is filtered out
get_purchasable_plans_unfiltered == SUBSCRIPTION_PLANS

get_purchasable_plans == SelectSeq(SUBSCRIPTION_PLANS, not_free)

get_plan(plan_id) ==
    LET hits == {i \in DOMAIN SUBSCRIPTION_PLANS : SUBSCRIPTION_PLANS[i].plan_id = plan_id}
    IN  IF hits = {} THEN NoPlan ELSE SUBSCRIPTION_PLANS[CHOOSE i \in hits : TRUE]

get_plan_price(plan_id) ==
    LET plan == get_plan(plan_id)
    IN  IF plan # NoPlan THEN plan.price_idr ELSE 0

\* faulty variant: every amount of the catalog is taken for plan personal
PlanByAmount_always_personal(amount_idr) ==
    IF \A i \in DOMAIN get_all_plans : get_all_plans[i].price_idr # amount_idr
    THEN NULL ELSE "personal"

\* the webhook's reverse lookup: the first plan, in catalog order, whose price
\* equals the payment amount; NULL when none does (or the match is falsy)
PlanByAmount(amount_idr) ==
    LET hits == {i \in DOMAIN get_all_plans : get_all_plans[i].price_idr = amount_idr}
    IN  IF hits = {} THEN NULL
        ELSE get_all_plans[CHOOSE i \in hits : \A j \in hits : i <= j].plan_id

\* faulty variant: alumni is missing from the table
tier_mapping_without_alumni(plan_id) ==
    CASE plan_id = "free" -> "free"
      [] plan_id = "personal" -> "personal"
      [] plan_id = "plus" -> "plus"
      [] plan_id = "premium" -> "premium"
      [] plan_id = "cinta" -> "plus"
      [] plan_id = "keluarga_yearly" -> "plus"
      [] OTHER -> "free"

tier_mapping(plan_id) ==
    CASE plan_id = "free" -> "free"
      [] plan_id = "personal" -> "personal"
      [] plan_id = "plus" -> "plus"
      [] plan_id = "premium" -> "premium"
      [] plan_id = "cinta" -> "plus"
      [] plan_id = "keluarga_yearly" -> "plus"
      [] plan_id = "alumni" -> "personal"
      [] OTHER -> "free"

period_days(billing_cycle) ==
    CASE billing_cycle = "monthly" -> 30
      [] billing_cycle = "yearly" -> 365
      [] billing_cycle = "one_time" -> 36500
      [] OTHER -> 30

\* ------------------------------------------------------------------- state
VARIABLES
    settings,   \* MIDTRANS_SERVER_KEY / MIDTRANS_CLIENT_KEY of the deployment
    now,        \* datetime.utcnow(), in days
    payments,   \* committed payments table (sequence; Payment.id = index)
    subs,       \* committed subscriptions table (sequence; Subscription.id = index)
    tier,       \* committed User.subscription_tier per user
    lock,       \* row lock on a payment held by a webhook transaction
    hook,       \* per worker: the webhook request it is processing
    api,        \* the call of checkout / cancel / sweep last answered
    sweep       \* per sweeper: the pass of expire_subscriptions it is running

vars == <<settings, now, payments, subs, tier, lock, hook, api, sweep>>

ServerKey == <<"server-key">>

Committed == [payments |-> payments, subs |-> subs, tier |-> tier]

IdleHook ==
    [pc |-> "idle", order_id |-> EmptyStr, transaction_status |-> NULL,
     fraud_status |-> NULL, payment_status |-> NULL, method |-> NULL,
     pid |-> NoId, old_status |-> NULL, loaded |-> NULL, obj |-> NULL, sid |-> NoId,
     resp |-> NULL, code |-> NULL, sig_matches |-> FALSE, pre |-> NULL, missing |-> {}]

AllIdle == \A w \in Workers : hook[w].pc = "idle"

\* no call answered and not yet returned
IdleApi ==
    [op |-> "none", user_id |-> NULL, plan_id |-> NULL, immediate |-> FALSE,
     subscription_id |-> NoId, code |-> NULL, order_id |-> EmptyStr,
     session |-> FALSE, count |-> 0, payment_id |-> NoId, feature |-> NULL,
     include_free |-> FALSE, listed |-> <<>>]

Quiet == AllIdle /\ api = IdleApi

Sweepers == {"s1", "s2"}

\* no pass running; nread is the number of Subscription rows when the pass read
IdleSweep == [pc |-> "idle", due |-> {}, demote |-> {}, nread |-> 0, count |-> 0]

NoSweep == \A k \in Sweepers : sweep[k].pc = "idle"

\* a payment that predates the running catalog / whose user row is gone
LegacyPayments ==
    { [user_id |-> NULL, subscription_id |-> NoId, amount_idr |-> 29000,
       payment_method |-> NULL, order_id |-> <<"SUB", "gone", 0, 0>>,
       status |-> "pending", completed_at |-> NoTime, plan |-> "personal", n_completed |-> 0],
      [user_id |-> "u1", subscription_id |-> NoId, amount_idr |-> LegacyAmount,
       payment_method |-> NULL, order_id |-> <<"SUB", "u1", 0, 0>>,
       status |-> "pending", completed_at |-> NoTime, plan |-> "tim", n_completed |-> 0] }

Init ==
    /\ settings \in [MIDTRANS_SERVER_KEY : {EmptyStr, ServerKey},
                     MIDTRANS_CLIENT_KEY : {EmptyStr, <<"client-key">>}]
    /\ now = 1
    /\ payments \in {<<>>} \cup {<<p>> : p \in LegacyPayments}
    /\ subs = <<>>
    /\ tier = [u \in Users |-> "free"]
    /\ lock = [w \in Workers |-> NoId]
    /\ hook = [w \in Workers |-> IdleHook]
    /\ api = IdleApi
    /\ sweep = [k \in Sweepers |-> IdleSweep]

\* ---------------------------------------------------------------- checkout
snap_configured ==
    settings.MIDTRANS_SERVER_KEY # EmptyStr /\ settings.MIDTRANS_CLIENT_KEY # EmptyStr

\* SUB-{user_id[:8]}-{timestamp}-{random_suffix}
generate_order_id(user_id, suffix) == <<"SUB", user_id, now, suffix>>

\* faulty variant: the price of the plan is not looked at
create_checkout_session_sells_free(user_id, plan_id, suffix, gateway_up) ==
    IF ~snap_configured
    THEN [error |-> "PAYMENT_NOT_CONFIGURED", order_id |-> EmptyStr, session |-> FALSE]
    ELSE IF get_plan(plan_id) = NoPlan
    THEN [error |-> "INVALID_PLAN", order_id |-> EmptyStr, session |-> FALSE]
    ELSE IF ~gateway_up
    THEN [error |-> "PAYMENT_API_ERROR", order_id |-> EmptyStr, session |-> TRUE]
    ELSE [error |-> NULL, order_id |-> generate_order_id(user_id, suffix), session |-> TRUE]

\* outcome of PaymentService.create_checkout_session; session tells whether
\* snap.create_transaction was called, gateway_up whether that call succeeds
create_checkout_session(user_id, plan_id, suffix, gateway_up) ==
    IF ~snap_configured
    THEN [error |-> "PAYMENT_NOT_CONFIGURED", order_id |-> EmptyStr, session |-> FALSE]
    ELSE IF get_plan(plan_id) = NoPlan
    THEN [error |-> "INVALID_PLAN", order_id |-> EmptyStr, session |-> FALSE]
    ELSE IF get_plan(plan_id).price_idr = 0
    THEN [error |-> "FREE_PLAN_NOT_PURCHASABLE", order_id |-> EmptyStr, session |-> FALSE]
    ELSE IF ~gateway_up
    THEN [error |-> "PAYMENT_API_ERROR", order_id |-> EmptyStr, session |-> TRUE]
    ELSE [error |-> NULL, order_id |-> generate_order_id(user_id, suffix), session |-> TRUE]

\* faulty variant: every payment is recorded at the price of plan personal
NewPayment_one_price(user_id, plan_id, payment_method, order_id) ==
    [user_id |-> user_id, subscription_id |-> NoId, amount_idr |-> get_plan_price("personal"),
     payment_method |-> payment_method, order_id |-> order_id,
     status |-> "pending", completed_at |-> NoTime, plan |-> plan_id, n_completed |-> 0]

NewPayment(user_id, plan_id, payment_method, order_id) ==
    [user_id |-> user_id, subscription_id |-> NoId, amount_idr |-> get_plan_price(plan_id),
     payment_method |-> payment_method, order_id |-> order_id,
     status |-> "pending", completed_at |-> NoTime, plan |-> plan_id, n_completed |-> 0]

OrderIds == {payments[i].order_id : i \in DOMAIN payments}

\* secrets.token_hex(4): the suffix drawn is one no earlier order of the same
\* user and second carries
FreshSuffix(user_id) ==
    CHOOSE r \in 1..(Len(payments) + 1) : generate_order_id(user_id, r) \notin OrderIds

\* POST /checkout: the gateway session first, then the Payment row and its
\* commit; suffix is what secrets.token_hex(4) returns, commit_ok whether the
\* request gets as far as a successful commit. When it does not, the request
\* ends in HTTP 500 and the session opened at the gateway stays.
create_checkout(user_id, plan_id, payment_method, suffix, gateway_up, commit_ok) ==
    LET out == create_checkout_session(user_id, plan_id, suffix, gateway_up)
    IN  /\ IF out.error = NULL /\ commit_ok
           THEN payments' = Append(payments,
                                   NewPayment(user_id, plan_id, payment_method, out.order_id))
           ELSE UNCHANGED payments
        /\ api' = [IdleApi EXCEPT !.op = "checkout", !.user_id = user_id,
                                  !.plan_id = plan_id,
                                  !.code = IF out.error # NULL THEN out.error
                                           ELSE IF commit_ok THEN "CREATED" ELSE "HTTP_500",
                                  !.order_id = out.order_id, !.session = out.session]
        /\ UNCHANGED <<sweep, settings, now, subs, tier, lock, hook>>

\* POST /checkout with a suffix no earlier order carries and a database that
\* commits
CreateCheckout(user_id, plan_id, payment_method, gateway_up) ==
    create_checkout(user_id, plan_id, payment_method, FreshSuffix(user_id), gateway_up, TRUE)

\* SubscriptionService.get_available_plans
get_available_plans(include_free) ==
    IF include_free THEN get_all_plans ELSE get_purchasable_plans

\* GET /plans: the plans listed, in catalog order
ListPlans(include_free) ==
    LET plans == get_available_plans(include_free)
    IN  /\ api' = [IdleApi EXCEPT !.op = "plans", !.include_free = include_free,
                                  !.listed = [i \in DOMAIN plans |-> plans[i].plan_id]]
        /\ UNCHANGED <<sweep, settings, now, payments, subs, tier, lock, hook>>

\* the answer of a call has been delivered to its caller
ApiReturn ==
    /\ api # IdleApi
    /\ api' = IdleApi
    /\ UNCHANGED <<sweep, settings, now, payments, subs, tier, lock, hook>>

Tick ==
    /\ now + TickDays <= MaxNow
    /\ now' = now + TickDays
    /\ UNCHANGED <<sweep, settings, payments, subs, tier, lock, hook, api>>

\* ----------------------------------------------------------------- webhook
Get(payload, key, default) == IF key \in DOMAIN payload THEN payload[key] ELSE default

\* hashlib.sha512(s.encode()).hexdigest(), collision-free
Sha512(s) == <<"sha512", s>>

\* a JSON number in the place of a string
JsonNumber == <<"number", "123">>

\* isinstance(value, str)
is_str(value) == value # JsonNumber

\* f"{value}"
Format(value) == IF is_str(value) THEN value ELSE <<value[2]>>

\* request bodies: a JSON object, JSON that is no object, bytes that are no JSON
JsonBody(payload) == [json |-> TRUE, object |-> TRUE, payload |-> payload]
JsonArray == [json |-> TRUE, object |-> FALSE, payload |-> <<>>]
NotJson == [json |-> FALSE, object |-> FALSE, payload |-> <<>>]

\* faulty variant: a capture is a success whatever the fraud status
status_mapping_fraud_blind(transaction_status, fraud_status) ==
    CASE transaction_status \in {"capture", "settlement"} -> "success"
      [] transaction_status = "pending" -> "pending"
      [] transaction_status \in {"deny", "cancel"} -> "failed"
      [] transaction_status = "expire" -> "expired"
      [] transaction_status \in {"refund", "partial_refund"} -> "refunded"
      [] OTHER -> "pending"

\* faulty variant: a status outside the table counts as paid
status_mapping_default_success(transaction_status, fraud_status) ==
    CASE transaction_status = "capture" ->
             (IF fraud_status = "accept" THEN "success" ELSE "pending")
      [] transaction_status = "pending" -> "pending"
      [] transaction_status \in {"deny", "cancel"} -> "failed"
      [] transaction_status = "expire" -> "expired"
      [] transaction_status \in {"refund", "partial_refund"} -> "refunded"
      [] OTHER -> "success"

status_mapping(transaction_status, fraud_status) ==
    CASE transaction_status = "capture" ->
             (IF fraud_status = "accept" THEN "success" ELSE "pending")
      [] transaction_status = "settlement" -> "success"
      [] transaction_status = "pending" -> "pending"
      [] transaction_status = "deny" -> "failed"
      [] transaction_status = "expire" -> "expired"
      [] transaction_status = "cancel" -> "failed"
      [] transaction_status = "refund" -> "refunded"
      [] transaction_status = "partial_refund" -> "refunded"
      [] OTHER -> "pending"

parse_payment_notification(payload) ==
    LET transaction_status == Get(payload, "transaction_status", "")
        fraud_status == Get(payload, "fraud_status", "accept")
    IN  [order_id |-> Get(payload, "order_id", EmptyStr),
         transaction_status |-> transaction_status,
         payment_status |-> status_mapping(transaction_status, fraud_status),
         payment_type |-> Get(payload, "payment_type", ""),
         gross_amount |-> Get(payload, "gross_amount", EmptyStr),
         status_code |-> Get(payload, "status_code", EmptyStr),
         signature_key |-> Get(payload, "signature_key", EmptyStr),
         transaction_id |-> Get(payload, "transaction_id", EmptyStr),
         transaction_time |-> Get(payload, "transaction_time", EmptyStr),
         fraud_status |-> fraud_status]

\* the fields every notification of the gateway carries
RequiredFields ==
    {"order_id", "transaction_status", "status_code", "gross_amount", "signature_key",
     "payment_type", "transaction_id", "transaction_time"}

\* faulty variant: the signature is only required to be present
verify_signature_presence(order_id, status_code, gross_amount, signature_key) ==
    settings.MIDTRANS_SERVER_KEY # EmptyStr /\ signature_key # EmptyStr

\* faulty variant: the hash is compared whether or not a key is configured
verify_signature_without_key(order_id, status_code, gross_amount, signature_key) ==
    Sha512(Format(order_id) \o status_code \o gross_amount \o settings.MIDTRANS_SERVER_KEY)
        = signature_key

verify_signature(order_id, status_code, gross_amount, signature_key) ==
    IF settings.MIDTRANS_SERVER_KEY = EmptyStr THEN FALSE
    ELSE Sha512(Format(order_id) \o status_code \o gross_amount
                    \o settings.MIDTRANS_SERVER_KEY)
             = signature_key

map_midtrans_payment_type(midtrans_payment_type) ==
    CASE midtrans_payment_type = "gopay" -> "gopay"
      [] midtrans_payment_type = "shopeepay" -> "shopeepay"
      [] midtrans_payment_type = "qris" -> "dana"
      [] midtrans_payment_type = "bank_transfer" -> "bank_transfer_bca"
      [] midtrans_payment_type = "bca_va" -> "bank_transfer_bca"
      [] midtrans_payment_type = "bni_va" -> "bank_transfer_bni"
      [] midtrans_payment_type = "bri_va" -> "bank_transfer_bri"
      [] midtrans_payment_type = "permata_va" -> "bank_transfer_mandiri"
      [] midtrans_payment_type = "echannel" -> "bank_transfer_mandiri"
      [] midtrans_payment_type = "credit_card" -> "credit_card"
      [] OTHER -> midtrans_payment_type

\* the signature the gateway computes for a notification, with the key it holds
GatewaySignature(order_id, status_code, gross_amount, key) ==
    Sha512(Format(order_id) \o status_code \o gross_amount \o key)

StatusPairs ==
    { <<"settlement", "accept">>, <<"capture", "accept">>, <<"capture", "challenge">>,
      <<"pending", "accept">>, <<"refund", "accept">>,
      <<"unknown_status", "accept">> }

SignatureKinds == {"valid", "other_amount", "other_key", "missing"}

UnknownOrder == <<"SUB", "nobody", 0, 0>>

\* the notifications delivered to the endpoint
Payload(order_id, sp, kind, payment_type) ==
    LET base == [order_id |-> order_id, transaction_status |-> sp[1], fraud_status |-> sp[2],
                 status_code |-> <<"200">>, gross_amount |-> <<"29000.00">>,
                 payment_type |-> payment_type, transaction_id |-> <<"tx-1">>,
                 transaction_time |-> <<"2026-01-01 00:00:00">>]
        sig == CASE kind = "valid" ->
                        GatewaySignature(order_id, <<"200">>, <<"29000.00">>, ServerKey)
                 [] kind = "other_amount" ->
                        GatewaySignature(order_id, <<"200">>, <<"1.00">>, ServerKey)
                 [] kind = "empty_key" ->
                        GatewaySignature(order_id, <<"200">>, <<"29000.00">>, EmptyStr)
                 [] OTHER ->
                        GatewaySignature(order_id, <<"200">>, <<"29000.00">>, <<"guess">>)
    IN  IF kind = "missing" THEN base
        ELSE [k \in DOMAIN base \cup {"signature_key"} |->
                 IF k = "signature_key" THEN sig ELSE base[k]]

\* faulty variant: an order without payment is booked on the oldest payment
PaymentsByOrder_or_oldest(order_id) ==
    LET hits == {i \in DOMAIN payments : payments[i].order_id = order_id}
    IN  IF hits = {} THEN {1} \cap DOMAIN payments ELSE hits

\* select(Payment).where(payment_provider_transaction_id == order_id)
PaymentsByOrder(order_id) == {i \in DOMAIN payments : payments[i].order_id = order_id}

\* the WebhookResponse returned (router.py 294, 366, 382); building it raises
\* when order_id is no string, in the except block too, and the request then
\* ends in HTTP 500
Respond(w, h, status, code) ==
    hook' = [hook EXCEPT ![w] =
                [h EXCEPT !.pc = "done", !.code = code,
                          !.resp = IF is_str(h.order_id) THEN status ELSE "HTTP_500"]]

\* requests on their way to create a subscription
Activating ==
    Cardinality({v \in Workers : hook[v].pc \in {"flush", "activate"}
                                  /\ hook[v].payment_status = "success"})

\* faulty variant: a success leaves completed_at as it is
Mutated_forgets_stamp(payment, payment_status, payment_type) ==
    IF payment_status = "success"
    THEN [payment EXCEPT !.status = payment_status,
                         !.payment_method = map_midtrans_payment_type(payment_type),
                         !.n_completed = @ + 1]
    ELSE [payment EXCEPT !.status = payment_status]

\* faulty variant: completed_at is stamped whatever the status
Mutated_always_stamps(payment, payment_status, payment_type) ==
    [payment EXCEPT !.status = payment_status, !.completed_at = now + 1]

\* router.py 300-308: the in-memory update of the loaded Payment
Mutated(payment, payment_status, payment_type) ==
    IF payment_status = "success"
    THEN [payment EXCEPT !.status = payment_status,
                         !.completed_at = now,
                         !.payment_method = map_midtrans_payment_type(payment_type),
                         !.n_completed = @ + 1]
    ELSE [payment EXCEPT !.status = payment_status]

\* faulty variant: no idempotence check
is_duplicate_never(payment, payment_status) == FALSE

\* router.py 291-292: the idempotence check
is_duplicate(payment, payment_status) ==
    payment.status = "success" /\ payment_status = "success"

\* router.py 249-308: parse, verify, locate, idempotence check, in-memory update
WebhookReceive(w, body) ==
    LET payload == body.payload
        n == parse_payment_notification(payload)
        is_valid == verify_signature(n.order_id, n.status_code, n.gross_amount,
                                     n.signature_key)
        found == PaymentsByOrder(n.order_id)
        h0 == [IdleHook EXCEPT !.order_id = n.order_id,
                               !.missing = RequiredFields \ DOMAIN payload,
                               !.sig_matches =
                                   (n.signature_key =
                                        GatewaySignature(n.order_id, n.status_code,
                                                         n.gross_amount,
                                                         settings.MIDTRANS_SERVER_KEY)),
                               !.pre = Committed]
        h1 == [h0 EXCEPT !.transaction_status = n.transaction_status,
                         !.fraud_status = n.fraud_status,
                         !.payment_status = n.payment_status,
                         !.method = map_midtrans_payment_type(n.payment_type)]
    IN  /\ hook[w].pc = "idle"
        /\ UNCHANGED <<sweep, settings, now, payments, subs, tier, lock, api>>
        /\ IF ~body.json \/ ~body.object
           THEN Respond(w, [IdleHook EXCEPT !.pre = Committed], "error", "BAD_BODY")
           ELSE IF ~is_valid THEN Respond(w, h0, "error", "INVALID_SIGNATURE")
           ELSE IF ~is_str(n.order_id) \/ found = {} THEN Respond(w, h1, "error", "PAYMENT_NOT_FOUND")
           ELSE IF Cardinality(found) > 1 THEN Respond(w, h1, "error", "MULTIPLE_RESULTS")
           ELSE LET pid == CHOOSE i \in found : TRUE
                    payment == payments[pid]
                IN  IF is_duplicate(payment, n.payment_status)
                    THEN Respond(w, [h1 EXCEPT !.pid = pid], "ok", "DUPLICATE")
                    ELSE /\ n.payment_status = "success" => Len(subs) + Activating < MaxSubs
                         /\ hook' = [hook EXCEPT ![w] =
                                [h1 EXCEPT !.pc = "flush", !.pid = pid,
                                           !.old_status = payment.status,
                                           !.loaded = payment,
                                           !.obj = Mutated(payment, n.payment_status,
                                                           n.payment_type)]]

\* the UPDATE the unit of work emits for a Payment: only the columns whose value
\* differs from the loaded one are written over the current row
Columns == {"status", "completed_at", "payment_method", "n_completed"}

Dirty(h) == \E c \in Columns : h.obj[c] # h.loaded[c]

Written(row, h) ==
    [c \in DOMAIN row |->
        IF c \in Columns /\ h.obj[c] # h.loaded[c]
        THEN (IF c = "n_completed" THEN row[c] + 1 ELSE h.obj[c])
        ELSE row[c]]

LockFree(w, pid) == \A v \in Workers \ {w} : lock[v] # pid

\* faulty variant: the status write is committed at once
WebhookFlush_commits(w) ==
    LET h == hook[w]
    IN  /\ h.pc = "flush"
        /\ LockFree(w, h.pid)
        /\ payments' = [payments EXCEPT ![h.pid] = Written(@, h)]
        /\ hook' = [hook EXCEPT ![w].pc =
               IF h.payment_status = "success" /\ h.old_status # "success"
               THEN "activate" ELSE "commit"]
        /\ UNCHANGED <<sweep, settings, now, subs, tier, lock, api>>

\* router.py 310: db.flush() sends the UPDATE, which takes the row lock
WebhookFlush(w) ==
    LET h == hook[w]
    IN  /\ h.pc = "flush"
        /\ IF Dirty(h)
           THEN /\ LockFree(w, h.pid)
                /\ lock' = [lock EXCEPT ![w] = h.pid]
           ELSE UNCHANGED lock
        /\ hook' = [hook EXCEPT ![w].pc =
               IF h.payment_status = "success" /\ h.old_status # "success"
               THEN "activate" ELSE "commit"]
        /\ UNCHANGED <<sweep, settings, now, payments, subs, tier, api>>

\* the request's session is closed without a commit: what it flushed is discarded
get_db_close(w) ==
    /\ lock' = [lock EXCEPT ![w] = NoId]
    /\ UNCHANGED <<payments, subs, tier>>

\* what the lookup of a payment by id yields when no row has that id
NoPayment ==
    [user_id |-> NULL, subscription_id |-> NoId, amount_idr |-> 0,
     payment_method |-> NULL, order_id |-> EmptyStr,
     status |-> NULL, completed_at |-> NoTime, plan |-> NULL, n_completed |-> 0]

\* faulty variant: the status of the payment is not looked at
create_subscription_error_any_status(user_id, plan_id, payment) ==
    IF user_id \notin Users THEN "USER_NOT_FOUND"
    ELSE IF get_plan(plan_id) = NoPlan THEN "INVALID_PLAN"
    ELSE IF payment = NoPayment THEN "PAYMENT_NOT_FOUND"
    ELSE NULL

\* SubscriptionService.create_subscription: the error it raises, or NULL
\* (USER_NOT_FOUND and PAYMENT_NOT_FOUND are both NotFoundException)
create_subscription_error(user_id, plan_id, payment) ==
    IF user_id \notin Users THEN "USER_NOT_FOUND"
    ELSE IF get_plan(plan_id) = NoPlan THEN "INVALID_PLAN"
    ELSE IF payment = NoPayment THEN "PAYMENT_NOT_FOUND"
    ELSE IF payment.status # "success" THEN "PAYMENT_NOT_SUCCESSFUL"
    ELSE NULL

NewSubscription(user_id, plan_id, payment_id) ==
    [user_id |-> user_id, plan_id |-> plan_id, status |-> "active",
     current_period_start |-> now,
     current_period_end |-> now + period_days(get_plan(plan_id).billing_cycle),
     cancelled_at |-> NoTime, payment_id |-> payment_id]

\* router.py 313-345 with create_subscription up to its commit (line 187)
WebhookActivate(w) ==
    LET h == hook[w]
        plan_id == PlanByAmount(h.obj.amount_idr)
        err == IF plan_id = NULL THEN "PLAN_NOT_FOUND"
               ELSE create_subscription_error(h.obj.user_id, plan_id, h.obj)
    IN  /\ h.pc = "activate"
        /\ UNCHANGED <<sweep, settings, now, api>>
        /\ IF err # NULL
           THEN /\ get_db_close(w)
                /\ Respond(w, h, "error", err)
           ELSE /\ payments' = [payments EXCEPT ![h.pid] = Written(@, h)]
                /\ subs' = Append(subs, NewSubscription(h.obj.user_id, plan_id, h.pid))
                /\ tier' = [tier EXCEPT ![h.obj.user_id] = tier_mapping(plan_id)]
                /\ lock' = [lock EXCEPT ![w] = NoId]
                /\ hook' = [hook EXCEPT ![w].pc = "link", ![w].sid = Len(subs) + 1]

\* a call of SubscriptionService.create_subscription with any arguments, by a
\* caller other than the webhook
ServiceCreate(user_id, plan_id, payment_id) ==
    LET payment == IF payment_id \in DOMAIN payments THEN payments[payment_id] ELSE NoPayment
        err == create_subscription_error(user_id, plan_id, payment)
    IN  /\ IF err # NULL
           THEN UNCHANGED <<subs, tier>>
           ELSE /\ subs' = Append(subs, NewSubscription(user_id, plan_id, payment_id))
                /\ tier' = [tier EXCEPT ![user_id] = tier_mapping(plan_id)]
        /\ api' = [IdleApi EXCEPT !.op = "create", !.user_id = user_id, !.plan_id = plan_id,
                                  !.payment_id = payment_id,
                                  !.subscription_id = IF err = NULL THEN Len(subs) + 1 ELSE NoId,
                                  !.code = IF err = NULL THEN "OK" ELSE err]
        /\ UNCHANGED <<sweep, settings, now, payments, lock, hook>>

\* router.py 348-357: link the payment to the subscription, commit
WebhookLink(w) ==
    LET h == hook[w]
    IN  /\ h.pc = "link"
        /\ LockFree(w, h.pid)
        /\ payments' = [payments EXCEPT ![h.pid].subscription_id = h.sid]
        /\ Respond(w, h, "ok", "PROCESSED")
        /\ UNCHANGED <<sweep, settings, now, subs, tier, lock, api>>

\* router.py 348-357 when the final commit raises or the process stops before
\* it: what create_subscription committed stays, the link is lost, and the
\* except block answers with an error if the process still runs
WebhookLinkFails(w) ==
    LET h == hook[w]
    IN  /\ h.pc = "link"
        /\ Respond(w, h, "error", "COMMIT_FAILED")
        /\ UNCHANGED <<sweep, settings, now, payments, subs, tier, lock, api>>

\* router.py 357: commit of a notification that activates nothing
WebhookCommit(w) ==
    LET h == hook[w]
    IN  /\ h.pc = "commit"
        /\ payments' = [payments EXCEPT ![h.pid] = Written(@, h)]
        /\ lock' = [lock EXCEPT ![w] = NoId]
        /\ Respond(w, h, "ok", "PROCESSED")
        /\ UNCHANGED <<sweep, settings, now, subs, tier, api>>

\* the response has been sent
WebhookReturn(w) ==
    /\ hook[w].pc = "done"
    /\ hook' = [hook EXCEPT ![w] = IdleHook]
    /\ UNCHANGED <<sweep, settings, now, payments, subs, tier, lock, api>>

\* ------------------------------------------------------- cancel and sweep
ActiveSubs(user_id) ==
    {i \in DOMAIN subs : subs[i].user_id = user_id /\ subs[i].status = "active"}

\* faulty variant: the owner is not checked
cancel_subscription_error_any_caller(subscription_id, user_id) ==
    IF subscription_id \notin DOMAIN subs THEN "NOT_FOUND"
    ELSE IF subs[subscription_id].status # "active" THEN "SUBSCRIPTION_NOT_ACTIVE"
    ELSE NULL

\* SubscriptionService.cancel_subscription: the error it raises, or NULL
cancel_subscription_error(subscription_id, user_id) ==
    IF subscription_id \notin DOMAIN subs THEN "NOT_FOUND"
    ELSE IF subs[subscription_id].user_id # user_id THEN "FORBIDDEN"
    ELSE IF subs[subscription_id].status # "active" THEN "SUBSCRIPTION_NOT_ACTIVE"
    ELSE NULL

\* faulty variant: an immediate cancel leaves the period end as it is
cancel_subscription_keeps_period(subscription_id, user_id, immediate) ==
    IF cancel_subscription_error(subscription_id, user_id) # NULL
    THEN UNCHANGED <<subs, tier>>
    ELSE IF immediate
    THEN /\ subs' = [subs EXCEPT ![subscription_id].cancelled_at = now,
                                 ![subscription_id].status = "cancelled"]
         /\ tier' = [tier EXCEPT ![user_id] = "free"]
    ELSE /\ subs' = [subs EXCEPT ![subscription_id].cancelled_at = now]
         /\ UNCHANGED tier

\* faulty variant: an immediate cancel leaves the tier as it is
cancel_subscription_keeps_tier(subscription_id, user_id, immediate) ==
    IF cancel_subscription_error(subscription_id, user_id) # NULL
    THEN UNCHANGED <<subs, tier>>
    ELSE /\ subs' = [subs EXCEPT ![subscription_id].cancelled_at = now,
                                 ![subscription_id].status =
                                     IF immediate THEN "cancelled" ELSE @,
                                 ![subscription_id].current_period_end =
                                     IF immediate THEN now ELSE @]
         /\ UNCHANGED tier

cancel_subscription(subscription_id, user_id, immediate) ==
    IF cancel_subscription_error(subscription_id, user_id) # NULL
    THEN UNCHANGED <<subs, tier>>
    ELSE IF immediate
    THEN /\ subs' = [subs EXCEPT ![subscription_id].cancelled_at = now,
                                 ![subscription_id].status = "cancelled",
                                 ![subscription_id].current_period_end = now]
         /\ tier' = [tier EXCEPT ![user_id] = "free"]
    ELSE /\ subs' = [subs EXCEPT ![subscription_id].cancelled_at = now]
         /\ UNCHANGED tier

\* the answer of SubscriptionService.cancel_subscription
CancelAnswer(subscription_id, user_id, immediate) ==
    LET err == cancel_subscription_error(subscription_id, user_id)
    IN  [IdleApi EXCEPT !.op = "cancel", !.user_id = user_id, !.immediate = immediate,
                        !.subscription_id = subscription_id,
                        !.code = IF err = NULL THEN "OK" ELSE err]

\* a call of SubscriptionService.cancel_subscription with any arguments
ServiceCancel(subscription_id, user_id, immediate) ==
    /\ cancel_subscription(subscription_id, user_id, immediate)
    /\ api' = CancelAnswer(subscription_id, user_id, immediate)
    /\ UNCHANGED <<sweep, settings, now, payments, lock, hook>>

\* POST /cancel: the caller's single active subscription is cancelled
CancelSubscription(user_id, immediate) ==
    /\ IF Cardinality(ActiveSubs(user_id)) = 1
       THEN LET subscription_id == CHOOSE i \in ActiveSubs(user_id) : TRUE
            IN  /\ cancel_subscription(subscription_id, user_id, immediate)
                /\ api' = CancelAnswer(subscription_id, user_id, immediate)
       ELSE /\ UNCHANGED <<subs, tier>>
            /\ api' = [IdleApi EXCEPT !.op = "cancel", !.user_id = user_id,
                                      !.immediate = immediate,
                                      !.code = IF ActiveSubs(user_id) = {}
                                               THEN "NOT_FOUND" ELSE "MULTIPLE_RESULTS"]
    /\ UNCHANGED <<sweep, settings, now, payments, lock, hook>>

\* faulty variant: every subscription past its period end is due
Expired_any_status == {i \in DOMAIN subs : subs[i].current_period_end < now}

\* faulty variant: a subscription with a cancellation stamp is passed over
Expired_skips_deferred ==
    {i \in DOMAIN subs : /\ subs[i].status = "active"
                         /\ subs[i].current_period_end < now
                         /\ subs[i].cancelled_at = NoTime}

\* the subscriptions a sweep pass selects
Expired == {i \in DOMAIN subs : subs[i].status = "active" /\ subs[i].current_period_end < now}

\* faulty variant: the pass does not look at the status
ExpireSubscriptions_any_status ==
    LET due == {i \in DOMAIN subs : subs[i].current_period_end < now}
    IN  /\ subs' = [i \in DOMAIN subs |->
                       IF i \in due THEN [subs[i] EXCEPT !.status = "expired"] ELSE subs[i]]
        /\ tier' = [u \in Users |->
                       IF \E i \in due : subs[i].user_id = u THEN "free" ELSE tier[u]]
        /\ api' = [IdleApi EXCEPT !.op = "sweep", !.count = Cardinality(due)]
        /\ UNCHANGED <<sweep, settings, now, payments, lock, hook>>

\* SubscriptionService.expire_subscriptions
ExpireSubscriptions ==
    /\ subs' = [i \in DOMAIN subs |->
                   IF i \in Expired THEN [subs[i] EXCEPT !.status = "expired"] ELSE subs[i]]
    /\ tier' = [u \in Users |->
                   IF \E i \in Expired : subs[i].user_id = u THEN "free" ELSE tier[u]]
    /\ api' = [IdleApi EXCEPT !.op = "sweep", !.count = Cardinality(Expired)]
    /\ UNCHANGED <<sweep, settings, now, payments, lock, hook>>

\* the feature access matrix: the tiers a feature is open to
feature_access(feature) ==
    CASE feature \in {"time_capsule", "ai_enhancement", "export_pdf"} -> {"plus", "premium"}
      [] feature \in {"public_sharing", "analytics"} -> {"premium"}
      [] OTHER -> {}

\* SubscriptionService.get_current_subscription: the error it raises, or NULL
get_current_subscription_error(user_id) ==
    IF user_id \notin Users THEN "NOT_FOUND"
    ELSE IF Cardinality(ActiveSubs(user_id)) > 1 THEN "MULTIPLE_RESULTS"
    ELSE NULL

\* SubscriptionService.check_feature_access: it loads the current subscription
\* first, then the user, and answers from the user's tier
CheckFeature(user_id, feature) ==
    LET err == get_current_subscription_error(user_id)
        has_access == tier[user_id] \in feature_access(feature)
    IN  /\ api' = [IdleApi EXCEPT !.op = "feature", !.user_id = user_id,
                                  !.feature = feature,
                                  !.code = IF err # NULL THEN err
                                           ELSE IF has_access THEN "ALLOWED" ELSE "DENIED"]
        /\ UNCHANGED <<sweep, settings, now, payments, subs, tier, lock, hook>>

\* expire_subscriptions 375-407 as a transaction of its own: the SELECT of the
\* due subscriptions with their users, and the in-memory changes; demote holds
\* the loaded users whose tier the assignment changes. A pass that finds
\* nothing does not commit.
SweepRead(k) ==
    /\ sweep[k].pc = "idle"
    /\ sweep' = [sweep EXCEPT ![k] =
           IF Expired = {}
           THEN [IdleSweep EXCEPT !.pc = "done", !.nread = Len(subs)]
           ELSE [IdleSweep EXCEPT !.pc = "read", !.due = Expired,
                                  !.demote = {u \in Users :
                                                 /\ tier[u] # "free"
                                                 /\ \E i \in Expired : subs[i].user_id = u},
                                  !.nread = Len(subs)]]
    /\ UNCHANGED <<settings, now, payments, subs, tier, lock, hook, api>>

\* expire_subscriptions 409-413: the commit writes the changed columns of the
\* rows read, whatever has been committed to them since, and the pass returns
\* the number of rows it read
SweepCommit(k) ==
    /\ sweep[k].pc = "read"
    /\ subs' = [i \in DOMAIN subs |->
                   IF i \in sweep[k].due THEN [subs[i] EXCEPT !.status = "expired"]
                   ELSE subs[i]]
    /\ tier' = [u \in Users |-> IF u \in sweep[k].demote THEN "free" ELSE tier[u]]
    /\ sweep' = [sweep EXCEPT ![k].pc = "done", ![k].count = Cardinality(sweep[k].due)]
    /\ UNCHANGED <<settings, now, payments, lock, hook, api>>

\* the pass has returned its count
SweepReturn(k) ==
    /\ sweep[k].pc = "done"
    /\ sweep' = [sweep EXCEPT ![k] = IdleSweep]
    /\ UNCHANGED <<settings, now, payments, subs, tier, lock, hook, api>>

\* ---------------------------------------------------------- specifications
CheckoutPlans == {"free", "personal", "cinta", "tim"}
CheckoutMethods == {NULL}
PaymentTypes == {"qris"}

DeliveredOrders == OrderIds \cup {UnknownOrder}

Receive(w) ==
    \E o \in DeliveredOrders, sp \in StatusPairs, k \in SignatureKinds, t \in PaymentTypes :
        WebhookReceive(w, JsonBody(Payload(o, sp, k, t)))

Checkout ==
    /\ Len(payments) < MaxOrders
    /\ \E u \in Buyers, p \in CheckoutPlans, m \in CheckoutMethods, up \in BOOLEAN :
          CreateCheckout(u, p, m, up)

Cancel == \E u \in Users, immediate \in BOOLEAN : CancelSubscription(u, immediate)

\* the periodic job; a pass may follow a pass at once
Sweep ==
    /\ AllIdle
    /\ api.op \in {"none", "sweep"}
    /\ ExpireSubscriptions

\* one call or delivery at a time, each processed to completion before anything
\* else
Next ==
    \/ Quiet /\ Checkout
    \/ Quiet /\ Cancel
    \/ Sweep
    \/ ApiReturn
    \/ Quiet /\ Tick
    \/ Quiet /\ Receive("w1")
    \/ WebhookFlush("w1")
    \/ WebhookActivate("w1")
    \/ WebhookLink("w1")
    \/ WebhookCommit("w1")
    \/ WebhookReturn("w1")

Spec == Init /\ [][Next]_vars

\* one checkout of any plan of the catalog, then its notifications
InitCatalog == Init /\ payments = <<>>

CheckoutAnyPlan ==
    /\ payments = <<>>
    /\ \E u \in Buyers, p \in PlanId \cup {"no_such_plan"}, m \in CheckoutMethods,
          up \in BOOLEAN : CreateCheckout(u, p, m, up)

ListPlansAny == \E include_free \in BOOLEAN : ListPlans(include_free)

NextCatalog ==
    \/ Quiet /\ CheckoutAnyPlan
    \/ Quiet /\ ListPlansAny
    \/ ApiReturn
    \/ Quiet /\ Tick
    \/ Quiet /\ Receive("w1")
    \/ WebhookFlush("w1")
    \/ WebhookActivate("w1")
    \/ WebhookLink("w1")
    \/ WebhookCommit("w1")
    \/ WebhookReturn("w1")

SpecCatalog == InitCatalog /\ [][NextCatalog]_vars

\* concurrent deliveries of one and the same settlement notification per order
InitConc ==
    /\ Init
    /\ payments = <<>>
    /\ settings.MIDTRANS_SERVER_KEY = ServerKey

SameSuccess(w) ==
    \E o \in OrderIds :
        WebhookReceive(w, JsonBody(Payload(o, <<"settlement", "accept">>, "valid", "qris")))

NextConc ==
    \/ api = IdleApi /\ Checkout
    \/ ApiReturn
    \/ \E w \in Workers : SameSuccess(w)
    \/ \E w \in Workers : WebhookFlush(w)
    \/ \E w \in Workers : WebhookActivate(w)
    \/ \E w \in Workers : WebhookLink(w)
    \/ \E w \in Workers : WebhookReturn(w)

SpecConc == InitConc /\ [][NextConc]_vars

\* calls of the subscription service with any arguments, between checkouts,
\* settlements, sweeps and clock steps
ServiceCancelAny ==
    \E i \in 1..MaxSubs, u \in Users, immediate \in BOOLEAN : ServiceCancel(i, u, immediate)

NextService ==
    \/ Quiet /\ Checkout
    \/ Quiet /\ ServiceCancelAny
    \/ Sweep
    \/ ApiReturn
    \/ Quiet /\ Tick
    \/ Quiet /\ SameSuccess("w1")
    \/ WebhookFlush("w1")
    \/ WebhookActivate("w1")
    \/ WebhookLink("w1")
    \/ WebhookReturn("w1")

SpecService == InitConc /\ [][NextService]_vars

\* direct calls of create_subscription, between checkouts, settlements and
\* clock steps
ServiceCreateAny ==
    /\ Len(subs) < MaxSubs
    /\ \E u \in Users \cup {"nobody"}, p \in PlanId, i \in 1..MaxOrders :
          ServiceCreate(u, p, i)

NextCreate ==
    \/ Quiet /\ Checkout
    \/ Quiet /\ ServiceCreateAny
    \/ ApiReturn
    \/ Quiet /\ Tick
    \/ Quiet /\ SameSuccess("w1")
    \/ WebhookFlush("w1")
    \/ WebhookActivate("w1")
    \/ WebhookLink("w1")
    \/ WebhookReturn("w1")

SpecCreate == InitConc /\ [][NextCreate]_vars

\* checkouts with any suffix and with commits that fail, and the settlements
\* of their orders
Suffixes == {1, 2}

CheckoutAnySuffix ==
    /\ Len(payments) < MaxOrders
    /\ \E u \in Buyers, p \in CheckoutPlans, r \in Suffixes, up \in BOOLEAN,
          commit_ok \in BOOLEAN : create_checkout(u, p, NULL, r, up, commit_ok)

NextCheckout ==
    \/ Quiet /\ CheckoutAnySuffix
    \/ ApiReturn
    \/ Quiet /\ SameSuccess("w1")
    \/ WebhookFlush("w1")
    \/ WebhookActivate("w1")
    \/ WebhookLink("w1")
    \/ WebhookReturn("w1")

SpecCheckout == InitConc /\ [][NextCheckout]_vars

\* feature checks between checkouts of plans of every tier, settlements and
\* cancellations
Features ==
    {"time_capsule", "ai_enhancement", "export_pdf", "public_sharing", "analytics",
     "no_such_feature"}

TierPlans == {"personal", "plus", "premium"}

CheckoutTierPlan ==
    /\ Len(payments) < MaxOrders
    /\ \E u \in Buyers, p \in TierPlans : CreateCheckout(u, p, NULL, TRUE)

CheckFeatureAny == \E u \in Users \cup {"nobody"}, f \in Features : CheckFeature(u, f)

NextGate ==
    \/ Quiet /\ CheckoutTierPlan
    \/ Quiet /\ Cancel
    \/ Quiet /\ CheckFeatureAny
    \/ ApiReturn
    \/ Quiet /\ SameSuccess("w1")
    \/ WebhookFlush("w1")
    \/ WebhookActivate("w1")
    \/ WebhookLink("w1")
    \/ WebhookReturn("w1")

SpecGate == InitConc /\ [][NextGate]_vars

\* sweep passes while settlements are being processed
NextSweep ==
    \/ Quiet /\ Checkout
    \/ SweepRead("s1")
    \/ SweepCommit("s1")
    \/ SweepReturn("s1")
    \/ ApiReturn
    \/ Quiet /\ NoSweep /\ Tick
    \/ SameSuccess("w1")
    \/ WebhookFlush("w1")
    \/ WebhookActivate("w1")
    \/ WebhookLink("w1")
    \/ WebhookReturn("w1")

SpecSweep == InitConc /\ [][NextSweep]_vars

\* sweep passes while settlements and cancellations are being processed
NextRace ==
    \/ Quiet /\ Checkout
    \/ Quiet /\ Cancel
    \/ SweepRead("s1")
    \/ SweepCommit("s1")
    \/ SweepReturn("s1")
    \/ ApiReturn
    \/ Quiet /\ NoSweep /\ Tick
    \/ Quiet /\ SameSuccess("w1")
    \/ WebhookFlush("w1")
    \/ WebhookActivate("w1")
    \/ WebhookLink("w1")
    \/ WebhookReturn("w1")

SpecRace == InitConc /\ [][NextRace]_vars

\* the periodic sweeper beside checkouts, settlements and deferred
\* cancellations: a pass that can take its next step eventually takes it
CancelDeferred == \E u \in Users : CancelSubscription(u, FALSE)

NextLive ==
    \/ Quiet /\ Checkout
    \/ Quiet /\ CancelDeferred
    \/ SweepRead("s1")
    \/ SweepCommit("s1")
    \/ SweepReturn("s1")
    \/ ApiReturn
    \/ Quiet /\ NoSweep /\ Tick
    \/ Quiet /\ SameSuccess("w1")
    \/ WebhookFlush("w1")
    \/ WebhookActivate("w1")
    \/ WebhookLink("w1")
    \/ WebhookReturn("w1")

SpecLive ==
    /\ InitConc
    /\ [][NextLive]_vars
    /\ WF_vars(SweepRead("s1"))
    /\ WF_vars(SweepCommit("s1"))
    /\ WF_vars(SweepReturn("s1"))

\* settlements whose request may fail after create_subscription has committed
NextCrash ==
    \/ Quiet /\ Checkout
    \/ ApiReturn
    \/ Quiet /\ Tick
    \/ Quiet /\ SameSuccess("w1")
    \/ WebhookFlush("w1")
    \/ WebhookActivate("w1")
    \/ WebhookLink("w1")
    \/ WebhookLinkFails("w1")
    \/ WebhookReturn("w1")

SpecCrash == InitConc /\ [][NextCrash]_vars

\* two sweepers, each running pass after pass, beside checkouts and settlements
NextSweepers ==
    \/ Quiet /\ Checkout
    \/ \E k \in Sweepers : SweepRead(k)
    \/ \E k \in Sweepers : SweepCommit(k)
    \/ \E k \in Sweepers : SweepReturn(k)
    \/ ApiReturn
    \/ Quiet /\ NoSweep /\ Tick
    \/ Quiet /\ SameSuccess("w1")
    \/ WebhookFlush("w1")
    \/ WebhookActivate("w1")
    \/ WebhookLink("w1")
    \/ WebhookReturn("w1")

SpecSweepers == InitConc /\ [][NextSweepers]_vars

\* every kind of request body delivered to the endpoint, for one order of plan
\* personal and the legacy rows
GatewayStatuses ==
    {"capture", "settlement", "pending", "deny", "expire", "cancel", "refund",
     "partial_refund", "authorize"}
FraudStatuses == {"accept", "challenge", "deny"}
DroppedKeys ==
    {{}, {"transaction_status"}, {"fraud_status"}, {"payment_type"}, {"transaction_time"}}

Without(payload, keys) == [k \in DOMAIN payload \ keys |-> payload[k]]

Bodies ==
    {JsonArray, NotJson, JsonBody(<<>>)} \cup
    { JsonBody(Without(Payload(o, <<ts, fs>>, k, "qris"), drop)) :
          o \in DeliveredOrders \cup {JsonNumber}, ts \in GatewayStatuses,
          fs \in FraudStatuses, k \in {"valid", "other_key"}, drop \in DroppedKeys }

Deliver(w) == \E body \in Bodies : WebhookReceive(w, body)

CheckoutPersonal ==
    /\ \A i \in DOMAIN payments : payments[i].plan # "personal"
    /\ \E u \in Buyers, up \in BOOLEAN : CreateCheckout(u, "personal", NULL, up)

NextNotify ==
    \/ Quiet /\ CheckoutPersonal
    \/ ApiReturn
    \/ Quiet /\ Deliver("w1")
    \/ WebhookFlush("w1")
    \/ WebhookActivate("w1")
    \/ WebhookLink("w1")
    \/ WebhookCommit("w1")
    \/ WebhookReturn("w1")

SpecNotify == Init /\ [][NextNotify]_vars

\* notifications signed with the gateway's key or with the empty key, for the
\* legacy rows and one order, in deployments with and without a server key
ReceiveSigned(w) ==
    \E o \in DeliveredOrders, sp \in StatusPairs, k \in {"valid", "empty_key"} :
        WebhookReceive(w, JsonBody(Payload(o, sp, k, "qris")))

NextKeys ==
    \/ Quiet /\ CheckoutPersonal
    \/ ApiReturn
    \/ Quiet /\ ReceiveSigned("w1")
    \/ WebhookFlush("w1")
    \/ WebhookActivate("w1")
    \/ WebhookLink("w1")
    \/ WebhookCommit("w1")
    \/ WebhookReturn("w1")

SpecKeys == Init /\ [][NextKeys]_vars

\* ------------------------------------------------------------------ claims
SubsOfPayment(i) == {j \in DOMAIN subs : subs[j].payment_id = i}

Done(w) == hook[w].pc = "done"

\* the payment rows a finished request's order identifier matched when it started
PreRows(w) ==
    {i \in DOMAIN hook[w].pre.payments : hook[w].pre.payments[i].order_id = hook[w].order_id}

\* C1: under serial processing of validly signed notifications, no order's
\* payment has ever had more than one Subscription row created for it.
C1_OneSubscriptionPerOrder ==
    \A i \in DOMAIN payments : Cardinality(SubsOfPayment(i)) <= 1

\* C2: a payment that is success and stays success keeps its completed_at and
\* payment_method, and completed_at is assigned at most once per payment.
C2_CompletedAtOnce ==
    [][\A i \in DOMAIN payments :
          /\ (payments[i].status = "success" /\ payments'[i].status = "success")
                 => /\ payments'[i].completed_at = payments[i].completed_at
                    /\ payments'[i].payment_method = payments[i].payment_method
          /\ payments'[i].n_completed <= 1]_vars

\* C3: concurrent deliveries of the same first settlement notification never
\* leave two Subscription rows for one order.
C3_ConcurrentSameSuccess ==
    \A i \in DOMAIN payments :
        \A j, k \in SubsOfPayment(i) : j = k

\* C4: each user has at most one Subscription whose status is active.
C4_OneActivePerUser ==
    \A u \in Users : Cardinality(ActiveSubs(u)) <= 1

C6_FailureRollsBack ==
    \A w \in Workers :
        (Done(w) /\ hook[w].resp = "error" /\ hook[w].old_status # NULL)
            => /\ Committed = hook[w].pre
               /\ payments[hook[w].pid].status = hook[w].old_status
               /\ ~is_duplicate(payments[hook[w].pid], hook[w].payment_status)

C6_Witness ==
    /\ Done("w1") /\ hook["w1"].resp = "error"
    /\ hook["w1"].code \in {"PLAN_NOT_FOUND", "USER_NOT_FOUND"}
    /\ hook["w1"].payment_status = "success"

\* C7: a success notification for a payment that is already success changes
\* nothing, creates no subscription and is answered "ok".
C7_DuplicateSuccessIsNoop ==
    \A w \in Workers :
        (/\ Done(w) /\ hook[w].sig_matches
         /\ settings.MIDTRANS_SERVER_KEY # EmptyStr
         /\ hook[w].payment_status = "success"
         /\ PreRows(w) # {}
         /\ \A i \in PreRows(w) : hook[w].pre.payments[i].status = "success")
            => /\ hook[w].resp = "ok"
               /\ Committed = hook[w].pre

C7_Witness ==
    /\ Done("w1") /\ hook["w1"].sig_matches
    /\ hook["w1"].payment_status = "success"
    /\ \E i \in PreRows("w1") :
          /\ hook["w1"].pre.payments[i].status = "success"
          /\ hook["w1"].pre.payments[i].subscription_id # NoId

\* C8: a user with an active Subscription has the tier the plan-to-tier table
\* gives that subscription's plan.
C8_TierMatchesActivePlan ==
    \A u \in Users : \A i \in ActiveSubs(u) : tier[u] = tier_mapping(subs[i].plan_id)

C10_CheckoutThenSuccess ==
    \A w \in Workers :
        (/\ Done(w) /\ hook[w].sig_matches
         /\ settings.MIDTRANS_SERVER_KEY # EmptyStr
         /\ hook[w].payment_status = "success"
         /\ \E i \in PreRows(w) : hook[w].pre.payments[i].status # "success")
            => \A i \in PreRows(w) :
                  /\ payments[i].status = "success"
                  /\ Len(subs) = Len(hook[w].pre.subs) + 1
                  /\ \A j \in DOMAIN hook[w].pre.subs : subs[j] = hook[w].pre.subs[j]
                  /\ subs[Len(subs)].status = "active"
                  /\ subs[Len(subs)].plan_id = payments[i].plan
                  /\ subs[Len(subs)].user_id = payments[i].user_id
                  /\ tier[payments[i].user_id] = tier_mapping(payments[i].plan)
                  /\ payments[i].plan = "personal" => tier[payments[i].user_id] = "personal"

C10_Witness ==
    /\ Done("w1") /\ hook["w1"].sig_matches
    /\ hook["w1"].payment_status = "success"
    /\ \E i \in PreRows("w1") :
          /\ hook["w1"].pre.payments[i].status = "pending"
          /\ payments[i].plan = "alumni"
          /\ payments[i].status = "success"

\* C11: the internal status of a notification is success for capture with
\* fraud status accept, pending for capture with any other fraud status,
\* success for settlement, pending for pending, failed for deny, expired for
\* expire, failed for cancel, refunded for refund and partial_refund, and
\* pending for every other gateway status.
C11_StatusTable ==
    \A w \in Workers :
        hook[w].transaction_status # NULL =>
            LET ts == hook[w].transaction_status
                fs == hook[w].fraud_status
                ps == hook[w].payment_status
            IN  /\ (ts = "capture" /\ fs = "accept") => ps = "success"
                /\ (ts = "capture" /\ fs # "accept") => ps = "pending"
                /\ ts = "settlement" => ps = "success"
                /\ ts = "pending" => ps = "pending"
                /\ ts = "deny" => ps = "failed"
                /\ ts = "expire" => ps = "expired"
                /\ ts = "cancel" => ps = "failed"
                /\ ts \in {"refund", "partial_refund"} => ps = "refunded"
                /\ ts \notin (GatewayStatuses \ {"authorize"}) => ps = "pending"

C11_Witness ==
    /\ Done("w1")
    /\ hook["w1"].transaction_status = "capture"
    /\ hook["w1"].fraud_status = "challenge"
    /\ hook["w1"].code = "PROCESSED"
    /\ payments[hook["w1"].pid].status = "pending"

\* C12: a payment becomes success, and a Subscription is created, only while
\* a validly signed notification for that payment is processed whose gateway
\* status is settlement, or capture with fraud status accept.
C12_SuccessOnlyByPaidStatus ==
    [][LET Paid(i) ==
               \E w \in Workers :
                   /\ hook[w].pid = i
                   /\ hook[w].sig_matches
                   /\ settings.MIDTRANS_SERVER_KEY # EmptyStr
                   /\ \/ hook[w].transaction_status = "settlement"
                      \/ /\ hook[w].transaction_status = "capture"
                         /\ hook[w].fraud_status = "accept"
       IN  /\ \A i \in DOMAIN payments' :
                  (/\ payments'[i].status = "success"
                   /\ (i \in DOMAIN payments => payments[i].status # "success"))
                      => Paid(i)
           /\ \A j \in DOMAIN subs' \ DOMAIN subs : Paid(subs'[j].payment_id)]_vars

C12_Witness ==
    /\ Done("w1") /\ hook["w1"].sig_matches
    /\ hook["w1"].transaction_status \in {"", "authorize"}
    /\ hook["w1"].code = "PROCESSED"
    /\ payments[hook["w1"].pid].status = "pending"
    /\ \E i \in DOMAIN payments :
          payments[i].status = "success" /\ payments[i].subscription_id # NoId

\* the catalog entries of a plan identifier
CatalogEntries(plan_id) ==
    {k \in DOMAIN SUBSCRIPTION_PLANS : SUBSCRIPTION_PLANS[k].plan_id = plan_id}

\* a call of checkout is answered in this step
CheckoutStep == api.op = "none" /\ api'.op = "checkout"

\* C13: a checkout that succeeds, for a plan with price above 0, appends
\* exactly one Payment row: pending, of the plan's price, carrying the order_id
\* returned, with no subscription, owned by the caller; Subscriptions and
\* tiers are unchanged.
C13_CheckoutAddsPendingPayment ==
    [][(CheckoutStep /\ api'.code = "CREATED") =>
          /\ Len(payments') = Len(payments) + 1
          /\ \A i \in DOMAIN payments : payments'[i] = payments[i]
          /\ LET payment == payments'[Len(payments')]
             IN  /\ payment.status = "pending"
                 /\ \E k \in CatalogEntries(api'.plan_id) :
                        /\ SUBSCRIPTION_PLANS[k].price_idr > 0
                        /\ payment.amount_idr = SUBSCRIPTION_PLANS[k].price_idr
                 /\ payment.order_id = api'.order_id
                 /\ payment.subscription_id = NoId
                 /\ payment.user_id = api'.user_id
          /\ subs' = subs
          /\ tier' = tier]_vars

C13_Witness ==
    /\ api.op = "checkout" /\ api.code = "CREATED" /\ api.plan_id = "keluarga_yearly"
    /\ payments # <<>>
    /\ payments[Len(payments)].amount_idr = 499000
    /\ payments[Len(payments)].order_id = api.order_id

\* C14: a checkout is refused with PAYMENT_NOT_CONFIGURED when a gateway key is
\* missing, else with INVALID_PLAN when the plan is not in the catalog, else
\* with FREE_PLAN_NOT_PURCHASABLE when its price is 0; a checkout refused so
\* opens no gateway session and adds no Payment row.
C14_CheckoutRefusals ==
    [][CheckoutStep =>
          /\ (settings.MIDTRANS_SERVER_KEY = EmptyStr \/ settings.MIDTRANS_CLIENT_KEY = EmptyStr)
                 => api'.code = "PAYMENT_NOT_CONFIGURED"
          /\ (snap_configured /\ CatalogEntries(api'.plan_id) = {})
                 => api'.code = "INVALID_PLAN"
          /\ (/\ snap_configured
              /\ \E k \in CatalogEntries(api'.plan_id) : SUBSCRIPTION_PLANS[k].price_idr = 0)
                 => api'.code = "FREE_PLAN_NOT_PURCHASABLE"
          /\ api'.code \in {"PAYMENT_NOT_CONFIGURED", "INVALID_PLAN",
                             "FREE_PLAN_NOT_PURCHASABLE"}
                 => (~api'.session /\ payments' = payments)]_vars

C14_Witness ==
    /\ api.op = "checkout" /\ api.code = "INVALID_PLAN" /\ api.plan_id = "tim"
    /\ snap_configured
    /\ payments = <<>>

\* a call of cancel_subscription for subscription i is answered in this step
CancelStep(i) == api.op = "none" /\ api'.op = "cancel" /\ api'.subscription_id = i

\* a sweep pass commits in this step
SweepWrites(k) == sweep[k].pc = "read" /\ sweep'[k].pc = "done"

\* a sweep pass runs, or commits, in this step
SweepStep ==
    \/ api.op \in {"none", "sweep"} /\ api'.op = "sweep"
    \/ \E k \in Sweepers : SweepWrites(k)

C16_DeferredCancelKeepsAccess ==
    [][/\ \A i \in DOMAIN subs :
             (/\ CancelStep(i) /\ ~api'.immediate
              /\ subs[i].status = "active"
              /\ subs[i].user_id = api'.user_id)
                 => /\ api'.code = "OK"
                    /\ subs' = [subs EXCEPT ![i].cancelled_at = now]
                    /\ tier' = tier
       /\ SweepStep =>
             \A i \in DOMAIN subs :
                 (/\ subs[i].status = "active"
                  /\ subs[i].cancelled_at # NoTime
                  /\ now <= subs[i].current_period_end)
                     => /\ subs'[i] = subs[i]
                        /\ tier'[subs[i].user_id] = tier[subs[i].user_id]]_vars

\* C17: cancel_subscription called by someone who is not the owner fails with
\* FORBIDDEN, called by the owner for a subscription that is not active fails
\* with SUBSCRIPTION_NOT_ACTIVE; a call failing so changes no Subscription and
\* no tier.
C17_CancelRefusals ==
    [][\A i \in DOMAIN subs :
          CancelStep(i) =>
              /\ subs[i].user_id # api'.user_id => api'.code = "FORBIDDEN"
              /\ (subs[i].user_id = api'.user_id /\ subs[i].status # "active")
                     => api'.code = "SUBSCRIPTION_NOT_ACTIVE"
              /\ api'.code \in {"FORBIDDEN", "SUBSCRIPTION_NOT_ACTIVE"}
                     => (subs' = subs /\ tier' = tier)]_vars

C17_Witness ==
    /\ api.op = "cancel" /\ api.code = "FORBIDDEN" /\ api.immediate
    /\ api.subscription_id \in DOMAIN subs
    /\ subs[api.subscription_id].status = "active"
    /\ subs[api.subscription_id].user_id # api.user_id
    /\ tier[subs[api.subscription_id].user_id] # "free"

C20_AlwaysAnswered ==
    \A w \in Workers : Done(w) => hook[w].resp \in {"ok", "error"}

\* C21: a notification that lacks a required field is not applied: it is not
\* answered "ok" and payments, subscriptions and tiers are as they were.
C21_IncompleteNeverApplied ==
    \A w \in Workers :
        (Done(w) /\ hook[w].missing # {})
            => /\ hook[w].resp # "ok"
               /\ Committed = hook[w].pre

\* a step that adds a Subscription row
Created == Len(subs') = Len(subs) + 1

\* a call of create_subscription outside the webhook is answered
CreateStep == api.op = "none" /\ api'.op = "create"

\* C22: a created subscription starts now and ends now + 30 days for a monthly
\* plan, + 365 for a yearly one, + 36500 for a one_time or lifetime one and
\* + 30 for any other billing cycle.
C22_PeriodDays(billing_cycle) ==
    CASE billing_cycle = "monthly" -> 30
      [] billing_cycle = "yearly" -> 365
      [] billing_cycle \in {"one_time", "lifetime"} -> 36500
      [] OTHER -> 30

C22_PeriodByCycle ==
    [][Created =>
          LET s == subs'[Len(subs')]
          IN  /\ s.current_period_start = now
              /\ s.current_period_end =
                     now + C22_PeriodDays(get_plan(s.plan_id).billing_cycle)]_vars

\* C23: create_subscription fails with PAYMENT_NOT_SUCCESSFUL only for a payment
\* that exists and is not success, with NotFound only when the user or the
\* payment does not exist, with INVALID_PLAN only when the plan does not exist;
\* it fails whenever one of these holds, and then adds no Subscription and
\* leaves every tier as it is.
C23_CreateRejected ==
    [][CreateStep =>
          LET a == api'
              no_user == a.user_id \notin Users
              no_plan == \A i \in DOMAIN SUBSCRIPTION_PLANS :
                             SUBSCRIPTION_PLANS[i].plan_id # a.plan_id
              no_payment == a.payment_id \notin DOMAIN payments
              unpaid == ~no_payment /\ payments[a.payment_id].status # "success"
          IN  /\ a.code = "PAYMENT_NOT_SUCCESSFUL" => unpaid
              /\ a.code \in {"USER_NOT_FOUND", "PAYMENT_NOT_FOUND"} => (no_user \/ no_payment)
              /\ a.code = "INVALID_PLAN" => no_plan
              /\ a.code \in {"OK", "PAYMENT_NOT_SUCCESSFUL", "USER_NOT_FOUND",
                              "PAYMENT_NOT_FOUND", "INVALID_PLAN"}
              /\ (no_user \/ no_plan \/ no_payment \/ unpaid) <=> a.code # "OK"
              /\ a.code # "OK" => subs' = subs /\ tier' = tier]_vars

C23_Witness ==
    /\ api.op = "create"
    /\ api.code = "PAYMENT_NOT_SUCCESSFUL"
    /\ api.user_id \in Users
    /\ \E i \in DOMAIN payments : payments[i].status = "success"

\* C24: a created subscription is active and its user's tier is the one the
\* fixed table gives for the plan; no purchasable plan gives tier free.
C24_TierTable ==
    [ personal |-> "personal", plus |-> "plus", premium |-> "premium", cinta |-> "plus",
      keluarga_yearly |-> "plus", alumni |-> "personal" ]

C24_ActiveWithTier ==
    [][Created =>
          LET s == subs'[Len(subs')]
          IN  /\ s.status = "active"
              /\ s.plan_id \in DOMAIN C24_TierTable =>
                     /\ tier'[s.user_id] = C24_TierTable[s.plan_id]
                     /\ tier'[s.user_id] # "free"
              /\ s.plan_id # "free" => s.plan_id \in DOMAIN C24_TierTable]_vars

C24_Witness ==
    /\ api.op = "create"
    /\ api.code = "OK"
    /\ api.plan_id = "alumni"
    /\ subs[api.subscription_id].status = "active"
    /\ tier[api.user_id] = "personal"

\* C25: a Subscription row is added only by a webhook request whose notification
\* moves its payment from a non-success status to success, and is added active;
\* a status changes only from active to cancelled in a cancel call or from
\* active to expired in a sweep pass, so cancelled and expired are final; no
\* row is ever removed.
C25_Lifecycle ==
    [][/\ Len(subs') >= Len(subs)
       /\ \A i \in DOMAIN subs :
              /\ subs'[i].user_id = subs[i].user_id
              /\ subs'[i].payment_id = subs[i].payment_id
              /\ subs'[i].status # subs[i].status =>
                     /\ subs[i].status = "active"
                     /\ \/ subs'[i].status = "cancelled" /\ CancelStep(i)
                        \/ subs'[i].status = "expired" /\ SweepStep
       /\ Len(subs') > Len(subs) =>
              /\ Created
              /\ subs'[Len(subs')].status = "active"
              /\ \E w \in Workers :
                     /\ hook[w].pc = "activate"
                     /\ hook'[w].pc = "link"
                     /\ hook[w].payment_status = "success"
                     /\ hook[w].old_status # "success"
                     /\ hook[w].loaded.status # "success"
                     /\ subs'[Len(subs')].payment_id = hook[w].pid
                     /\ payments'[hook[w].pid].status = "success"]_vars

C25_Witness ==
    /\ Len(subs) = 2
    /\ subs[1].status = "cancelled"
    /\ subs[2].status = "expired"
    /\ api.op = "sweep"

\* C26: when a sweep pass that expired something has committed and a webhook
\* request has activated a subscription after that pass read its rows, the new
\* subscription is still active and its user's tier is not free.
C26_SweepSafeWithActivation ==
    \A w \in Workers, k \in Sweepers :
        ( /\ sweep[k].pc = "done"
          /\ sweep[k].count > 0
          /\ hook[w].pc \in {"link", "done"}
          /\ hook[w].sid > sweep[k].nread )
        => /\ subs[hook[w].sid].status = "active"
           /\ tier[subs[hook[w].sid].user_id] # "free"

\* C27: a checkout call that opened a gateway session for an order identifier
\* leaves exactly one Payment row carrying that identifier.
C27_SessionHasPayment ==
    [][(CheckoutStep /\ api'.session /\ api'.order_id # EmptyStr) =>
          Cardinality({i \in DOMAIN payments' : payments'[i].order_id = api'.order_id}) = 1]_vars

\* C30: no two Payment rows carry the same order identifier.
C30_OrderIdsUnique ==
    \A i, j \in DOMAIN payments : payments[i].order_id = payments[j].order_id => i = j

\* a feature check is answered
FeatureStep == api.op = "none" /\ api'.op = "feature"

\* C28: for an existing user the feature gate answers allowed or denied, allowed
\* exactly when the user's tier is on the feature's list (time_capsule,
\* ai_enhancement, export_pdf: plus and premium; public_sharing, analytics:
\* premium); unknown features and tier free are denied; nothing stored changes.
C28_AllowList ==
    [ time_capsule |-> {"plus", "premium"}, ai_enhancement |-> {"plus", "premium"},
      export_pdf |-> {"plus", "premium"}, public_sharing |-> {"premium"},
      analytics |-> {"premium"} ]

C28_FeatureGate ==
    [][(FeatureStep /\ api'.user_id \in Users) =>
          LET t == tier[api'.user_id]
              f == api'.feature
          IN  /\ api'.code \in {"ALLOWED", "DENIED"}
              /\ api'.code = "ALLOWED" <=> (f \in DOMAIN C28_AllowList /\ t \in C28_AllowList[f])
              /\ (f \notin DOMAIN C28_AllowList \/ t = "free") => api'.code = "DENIED"
              /\ payments' = payments /\ subs' = subs /\ tier' = tier]_vars

\* C29: plan ids are unique; free is the one plan of price 0; prices are
\* pairwise distinct, so the webhook's lookup by amount returns the plan of that
\* price; get_plan_price of an unknown plan id is 0; a listing without
\* include_free shows every plan but free, once each.
C29_Catalog ==
    LET P == SUBSCRIPTION_PLANS
        Listed == {api.listed[i] : i \in DOMAIN api.listed}
    IN  /\ \A i, j \in DOMAIN P : P[i].plan_id = P[j].plan_id => i = j
        /\ \A i \in DOMAIN P : P[i].price_idr = 0 <=> P[i].plan_id = "free"
        /\ \E i \in DOMAIN P : P[i].plan_id = "free"
        /\ \A i, j \in DOMAIN P : P[i].price_idr = P[j].price_idr => i = j
        /\ \A i \in DOMAIN P : PlanByAmount(P[i].price_idr) = P[i].plan_id
        /\ \A id \in (PlanId \cup {"no_such_plan"}) \ {P[i].plan_id : i \in DOMAIN P} :
               get_plan_price(id) = 0
        /\ (api.op = "plans" /\ ~api.include_free) =>
               /\ Listed = {P[i].plan_id : i \in DOMAIN P} \ {"free"}
               /\ Len(api.listed) = Len(P) - 1
        /\ (api.op = "plans" /\ api.include_free) =>
               api.listed = [i \in DOMAIN P |-> P[i].plan_id]

C29_Witness ==
    /\ api.op = "plans"
    /\ ~api.include_free
    /\ Len(api.listed) = 6
    /\ api.listed[1] = "personal"

\* a subscription a sweep pass selects: active and past its period end
Due(i) == subs[i].status = "active" /\ subs[i].current_period_end < now

\* C31: a sweep pass changes only subscriptions that are active and past their
\* period end, and the tier of their owners only; every other subscription
\* (cancelled, expired, active inside its period) and every payment stay as
\* they are.
C31_SweepFrame ==
    [][SweepStep =>
          /\ payments' = payments
          /\ Len(subs') = Len(subs)
          /\ \A i \in DOMAIN subs : subs'[i] # subs[i] => Due(i)
          /\ \A u \in Users :
                 tier'[u] # tier[u] => \E i \in DOMAIN subs : subs[i].user_id = u /\ Due(i)]_vars

C33_PaymentLinked ==
    AllIdle => \A j \in DOMAIN subs : payments[subs[j].payment_id].subscription_id = j

\* C34: a validly signed notification whose status maps to pending, failed,
\* expired or refunded changes the status of the payment it matches and nothing
\* else: the payment's other columns, every subscription and every tier stay,
\* also when the payment was success and had activated a subscription.
C34_NonSuccessChangesStatusOnly ==
    \A w \in Workers :
        (/\ Done(w) /\ hook[w].sig_matches
         /\ settings.MIDTRANS_SERVER_KEY # EmptyStr
         /\ hook[w].payment_status \in {"pending", "failed", "expired", "refunded"}
         /\ PreRows(w) # {})
            => /\ hook[w].resp = "ok"
               /\ subs = hook[w].pre.subs
               /\ tier = hook[w].pre.tier
               /\ payments = [i \in DOMAIN hook[w].pre.payments |->
                                 IF i \in PreRows(w)
                                 THEN [hook[w].pre.payments[i] EXCEPT
                                           !.status = hook[w].payment_status]
                                 ELSE hook[w].pre.payments[i]]

C34_Witness ==
    /\ Done("w1") /\ hook["w1"].sig_matches
    /\ hook["w1"].payment_status = "refunded"
    /\ \E i \in PreRows("w1") :
          /\ hook["w1"].pre.payments[i].status = "success"
          /\ hook["w1"].pre.payments[i].subscription_id # NoId
          /\ payments[i].status = "refunded"
          /\ payments[i].completed_at # NoTime
          /\ subs[payments[i].subscription_id].status = "active"

\* C35: a payment with status success has completed_at set; a payment for which
\* no success notification has been applied has completed_at null and
\* subscription_id null.
C35_CompletedAtWithSuccess ==
    \A i \in DOMAIN payments :
        /\ payments[i].status = "success" => payments[i].completed_at # NoTime
        /\ payments[i].n_completed = 0 =>
               /\ payments[i].completed_at = NoTime
               /\ payments[i].subscription_id = NoId

C35_Witness ==
    /\ Len(payments) = 2
    /\ payments[2].status = "success" /\ payments[2].completed_at # NoTime
    /\ payments[2].subscription_id # NoId
    /\ payments[1].status = "failed" /\ payments[1].n_completed = 0
    /\ payments[1].completed_at = NoTime

\* C36: a payment whose subscription_id is set refers to a subscription of the
\* payment's user whose plan costs, by the catalog, the payment's amount; no
\* step changes a payment's amount, user or order identifier.
C36_LinkMatchesPayment ==
    [][/\ \A i \in DOMAIN payments' :
              payments'[i].subscription_id # NoId =>
                  /\ payments'[i].subscription_id \in DOMAIN subs'
                  /\ subs'[payments'[i].subscription_id].user_id = payments'[i].user_id
                  /\ get_plan_price(subs'[payments'[i].subscription_id].plan_id)
                         = payments'[i].amount_idr
       /\ \A i \in DOMAIN payments :
              /\ payments'[i].amount_idr = payments[i].amount_idr
              /\ payments'[i].user_id = payments[i].user_id
              /\ payments'[i].order_id = payments[i].order_id]_vars

C36_Witness ==
    \E i \in DOMAIN payments :
        /\ payments[i].subscription_id # NoId
        /\ payments[i].amount_idr = 50000
        /\ subs[payments[i].subscription_id].plan_id = "alumni"
        /\ Done("w1") /\ hook["w1"].pid = i

\* C37: two sweep passes that have both committed and not yet returned have
\* not expired, and counted, the same subscription.
C37_NoDoubleCount ==
    \A k1, k2 \in Sweepers :
        (k1 # k2 /\ sweep[k1].pc = "done" /\ sweep[k2].pc = "done")
            => sweep[k1].due \cap sweep[k2].due = {}

====
